---------------------------- MODULE Spec2Model ----------------------------
(***************************************************************************)
(* Model of the schema migration engine of db/migration/new_migrator.go.  *)
(*                                                                         *)
(* Several service instances (Procs) share one database.  The database is *)
(* the migration_version table (present or not, with its rows) and the    *)
(* effects of the migration statements that have been executed and        *)
(* committed.  Every database round trip of Up / CurrentVersion is one    *)
(* atomic step, so the steps of concurrent calls interleave freely.       *)
(*                                                                         *)
(* Text is modelled as a sequence of tokens; the token ";" is the          *)
(* statement terminator character, every other token stands for a run of  *)
(* characters that holds no ";".                                           *)
(***************************************************************************)
EXTENDS Integers, Sequences, FiniteSets, TLC

\* ------------------------------------------------------------------ bounds
MaxCalls == 3     \* calls made in one behaviour, over all processes
MaxFaults == 1    \* injected I/O faults (connection errors) per behaviour

\* --------------------------------------------------------------- constants
oldMigrationLastVersion == 189
newMigrationStartVersion == 1510262030

Procs == {"p1", "p2"}

Semi == ";"
SentinelWord == "NO_TRANSACTION"
\* const noTransaction string = "NO_TRANSACTION;"
noTransaction == <<SentinelWord, Semi>>

\* Statement texts the database rejects: "x" stands for a statement that
\* fails (a constraint or syntax error); the bare word NO_TRANSACTION is not
\* SQL either.
BadTokens == {"x", SentinelWord}

NilErr == [kind |-> "nil"]
DbErr == [kind |-> "db"]
AssetErr == [kind |-> "asset"]
LegacyErr(found) ==
    [kind |-> "legacy", expected |-> oldMigrationLastVersion, found |-> found]

\* ------------------------------------------------------------- catalogues
\* A catalogue is what the asset package and the caller hand to NewMigrator:
\*   assets     file name (abstracted to the unit's key) -> file contents
\*   names      AssetNames(), in the order the asset package lists them
\*   migrations the list given to NewMigrator (empty: use AssetNames())
\* All units succeed; listed in key order; keys around the new-era floor
NewEra ==
    [assets |-> (newMigrationStartVersion :> <<"a">>),
     names |-> <<newMigrationStartVersion>>,
     migrations |-> <<>>]

Catalogues ==
    { \* fresh-database scenario of the documentation
      [assets |-> (1 :> <<"a">>) @@ (2 :> <<SentinelWord, Semi, "b">>)
                  @@ (3 :> <<"c">>),
       names |-> <<1, 2, 3>>, migrations |-> <<>>],
      \* a transactional unit whose second of three statements fails
      [assets |-> (1 :> <<"a", Semi, "x", Semi, "c">>) @@ (2 :> <<"b">>),
       names |-> <<1, 2>>, migrations |-> <<>>],
      \* an explicit list, out of key order, whose last name is a file the
      \* asset package does not hold
      [assets |-> (1 :> <<"a">>) @@ (2 :> <<"b", Semi, "c">>),
       names |-> <<1, 2>>, migrations |-> <<2, 1, 4>>],
      \* an empty body, and a body that is the sentinel alone
      [assets |-> (1 :> <<>>) @@ (2 :> <<SentinelWord, Semi>>),
       names |-> <<1, 2>>, migrations |-> <<>>],
      NewEra }

\* Target versions handed to Down
DownTargets == {0, 1}

\* Rows of the legacy version table a database may start with (none: a
\* fresh database, which has no such table).  A database that has the legacy
\* table is migrated with the new-era catalogue.
LegacyStarts ==
    {{}, {oldMigrationLastVersion}, {oldMigrationLastVersion - 1}}

\* ------------------------------------------------------------------- state
VARIABLES
    cat,          \* the catalogue (fixed after construction)
    tableExists,  \* the table migration_version exists
    legacyRows,   \* the row of the legacy version table (at most one)
    appliedRows,  \* versions recorded in the Version Store
    effects,      \* <<key, i>> -> committed executions of statement i of key
    lockHeld,     \* processes holding the schema-migration lock
    faults,       \* I/O faults injected so far
    pc,           \* each process's position
    calls,        \* calls made so far
    idx,          \* Up: index into migrationFiles
    stmts,        \* Up: statements of the current unit
    sidx,         \* Up: index of the next statement
    inTx,         \* Up: a transaction is open
    pending,      \* Up: statement indexes executed in the open transaction
    migrationErr, \* runTransaction: the error of the failed statement
    legacyRet,    \* Up: what checkLegacyVersion returned (discarded by Up)
    ret,          \* what the last call returned
    log,          \* history: the database steps of the current call
    start,        \* history: the legacy rows the database started with
    applied,      \* history: statements whose effects the current call put
                  \*          into the database
    upDone,       \* history: Up() calls of each process that returned nil
    startRows,    \* history: appliedRows when the current call started
    upsBefore,    \* history: Up() calls that had returned nil (over all
                  \*          processes) when the current call started
    cvSeen        \* history: the values CurrentVersion() calls returned
                  \*          with a nil error, in the order they returned

vars == <<cat, tableExists, legacyRows, appliedRows, effects, lockHeld, faults,
          pc, calls, idx, stmts, sidx, inTx, pending, migrationErr, legacyRet,
          ret, log, start, applied, upDone, startRows, upsBefore, cvSeen>>

\* ----------------------------------------------------------------- helpers
\* strings.Split(s, ";")
RECURSIVE SplitAcc(_, _, _)
SplitAcc(s, cur, acc) ==
    IF s = <<>> THEN Append(acc, cur)
    ELSE IF Head(s) = Semi THEN SplitAcc(Tail(s), <<>>, Append(acc, cur))
    ELSE SplitAcc(Tail(s), Append(cur, Head(s)), acc)

Split(s) == SplitAcc(s, <<>>, <<>>)

\* NewMigrator: an empty list means AssetNames()
NewMigrator(c) == IF Len(c.migrations) = 0 THEN c.names ELSE c.migrations

migrationFiles == NewMigrator(cat)

\* Asset(name): the contents, or an error for an unknown name
AssetFound(name) == name \in DOMAIN cat.assets

\* ParseFile: the contents split on ";"
ParseFile(name) == Split(cat.assets[name])

\* statements[0] == noTransaction
IsNoTransaction(statements) == statements[1] = noTransaction

\* The statements the unit hands to the database, with their positions in
\* the split list: statements[1:] after the sentinel, else all of them.
FirstStatement(statements) == IF IsNoTransaction(statements) THEN 2 ELSE 1

\* The database accepts a statement unless its text is bad
StatementOk(statement) ==
    \A i \in 1..Len(statement) : statement[i] \notin BadTokens

\* Outcomes of a database round trip: TRUE, or FALSE for an I/O fault
Outcomes == IF faults < MaxFaults THEN {TRUE, FALSE} ELSE {TRUE}

Fault(ok) == faults' = IF ok THEN faults ELSE faults + 1

StmtIds(c) ==
    UNION { {<<k, i>> : i \in 1..Len(Split(c.assets[k]))} :
            k \in DOMAIN c.assets }

Key(p) == migrationFiles[idx[p]]

Event(kind, key, i, ok) == [kind |-> kind, key |-> key, i |-> i, ok |-> ok]

\* -------------------------------------------------------------------- init
Init ==
    /\ cat \in Catalogues
    /\ legacyRows \in LegacyStarts
    /\ legacyRows # {} => cat = NewEra
    /\ tableExists = (legacyRows # {})
    /\ appliedRows = {}
    /\ effects = [s \in StmtIds(cat) |-> 0]
    /\ lockHeld = {}
    /\ faults = 0
    /\ pc = [p \in Procs |-> "idle"]
    /\ calls = 0
    /\ idx = [p \in Procs |-> 0]
    /\ stmts = [p \in Procs |-> <<>>]
    /\ sidx = [p \in Procs |-> 0]
    /\ inTx = [p \in Procs |-> FALSE]
    /\ pending = [p \in Procs |-> {}]
    /\ migrationErr = [p \in Procs |-> NilErr]
    /\ legacyRet = [p \in Procs |-> 0]
    /\ ret = [p \in Procs |-> [op |-> "none", val |-> 0, err |-> NilErr]]
    /\ log = [p \in Procs |-> <<>>]
    /\ start = legacyRows
    /\ applied = [p \in Procs |-> {}]
    /\ upDone = [p \in Procs |-> 0]
    /\ startRows = [p \in Procs |-> {}]
    /\ upsBefore = [p \in Procs |-> 0]
    /\ cvSeen = <<>>

\* ----------------------------------------------------------------- returns
\* Up returns err: the process is idle again
UpReturn(p, err) ==
    /\ pc' = [pc EXCEPT ![p] = "idle"]
    /\ ret' = [ret EXCEPT ![p] = [op |-> "Up", val |-> 0, err |-> err]]
    /\ upDone' = [upDone EXCEPT ![p] = IF err = NilErr THEN @ + 1 ELSE @]

Logged(p, e) == log' = [log EXCEPT ![p] = Append(@, e)]

RECURSIVE SumOver(_, _)
SumOver(f, S) ==
    IF S = {} THEN 0
    ELSE LET x == CHOOSE y \in S : TRUE IN f[x] + SumOver(f, S \ {x})

UpsDone == SumOver(upDone, Procs)

\* A call starts: the history of the call is reset, and what the locals of
\* the process's last Up() held is gone (idx stays, as the record of where
\* that Up() stopped)
Enter(p) ==
    /\ pc[p] = "idle"
    /\ calls < MaxCalls
    /\ calls' = calls + 1
    /\ startRows' = [startRows EXCEPT ![p] = appliedRows]
    /\ upsBefore' = [upsBefore EXCEPT ![p] = UpsDone]
    /\ applied' = [applied EXCEPT ![p] = {}]
    /\ stmts' = [stmts EXCEPT ![p] = <<>>]
    /\ sidx' = [sidx EXCEPT ![p] = 0]
    /\ migrationErr' = [migrationErr EXCEPT ![p] = NilErr]
    /\ legacyRet' = [legacyRet EXCEPT ![p] = 0]

\* checkOrCreateSchemaMigrationsTable: CREATE TABLE IF NOT EXISTS
CreateTable(ok) == tableExists' = (tableExists \/ ok)

\* ---------------------------------------------------------------------- Up
\* Up, first step: checkOrCreateSchemaMigrationsTable
UpEnsureTable(p) ==
    /\ Enter(p)
    /\ \E ok \in Outcomes :
        /\ Fault(ok)
        /\ CreateTable(ok)
        /\ log' = [log EXCEPT ![p] = <<Event("ensure", 0, 0, ok)>>]
        /\ IF ok
           THEN /\ pc' = [pc EXCEPT ![p] = "existLegacy"]
                /\ UNCHANGED <<ret, upDone>>
           ELSE UpReturn(p, DbErr)
    /\ idx' = [idx EXCEPT ![p] = 1]
    /\ UNCHANGED cvSeen
    /\ UNCHANGED <<cat, start, legacyRows, appliedRows, effects, lockHeld,
                   inTx, pending>>

\* checkLegacyVersion returns (v, nil) and Up, which discards v, enters its loop
LegacyDone(p, v) ==
    /\ legacyRet' = [legacyRet EXCEPT ![p] = v]
    /\ pc' = [pc EXCEPT ![p] = "loop"]
    /\ UNCHANGED <<ret, upDone>>

\* checkLegacyVersion returns (-1, err) and Up returns err
LegacyFailed(p, err) ==
    /\ legacyRet' = [legacyRet EXCEPT ![p] = 0 - 1]
    /\ UpReturn(p, err)

\* existLegacyVersion: err != nil || exists
ExistLegacyVersion(p) ==
    /\ pc[p] = "existLegacy"
    /\ \E ok \in Outcomes :
        /\ Fault(ok)
        /\ Logged(p, Event("exists", 0, 0, ok))
        /\ IF ~ok \/ tableExists
           THEN /\ pc' = [pc EXCEPT ![p] = "readLegacy"]
                /\ UNCHANGED <<legacyRet, ret, upDone>>
           ELSE LegacyDone(p, 0 - 1)
    /\ UNCHANGED cvSeen
    /\ UNCHANGED <<cat, start, tableExists, legacyRows, appliedRows, effects,
                   lockHeld, calls, idx, stmts, sidx, inTx, pending,
                   migrationErr, startRows, upsBefore, applied>>

\* (a Scan that yields the zero value when the table has no row)
ScanVersionDefault(rows) == IF rows = {} THEN {0} ELSE rows

\* QueryRow(...).Scan(&dbVersion): the values it may store; none when the
\* table has no row, and Scan returns an error
ScanVersion(rows) == rows

\* (a comparison that lets every version through)
VersionSupportedAny(dbVersion) == TRUE

\* dbVersion != oldMigrationLastVersion, negated
VersionSupported(dbVersion) == dbVersion = oldMigrationLastVersion

\* checkLegacyVersion: SELECT version FROM migration_version, then the
\* comparison with oldMigrationLastVersion
ReadLegacyVersion(p) ==
    /\ pc[p] = "readLegacy"
    /\ \E ok \in Outcomes :
        /\ Fault(ok)
        /\ Logged(p, Event("read", 0, 0, ok))
        /\ IF \/ ~ok
              \/ ~tableExists
              \/ ScanVersion(legacyRows \cup appliedRows) = {}
           THEN LegacyDone(p, 0 - 1)
           ELSE \E dbVersion \in ScanVersion(legacyRows \cup appliedRows) :
                  IF ~VersionSupported(dbVersion)
                  THEN LegacyFailed(p, LegacyErr(dbVersion))
                  ELSE /\ pc' = [pc EXCEPT ![p] = "dropLegacy"]
                       /\ UNCHANGED <<legacyRet, ret, upDone>>
    /\ UNCHANGED cvSeen
    /\ UNCHANGED <<cat, start, tableExists, legacyRows, appliedRows, effects,
                   lockHeld, calls, idx, stmts, sidx, inTx, pending,
                   migrationErr, startRows, upsBefore, applied>>

\* checkLegacyVersion: DROP TABLE IF EXISTS migration_version
DropLegacyTable(p) ==
    /\ pc[p] = "dropLegacy"
    /\ \E ok \in Outcomes :
        /\ Fault(ok)
        /\ Logged(p, Event("drop", 0, 0, ok))
        /\ IF ok
           THEN /\ tableExists' = FALSE
                /\ legacyRows' = {}
                /\ appliedRows' = {}
                /\ LegacyDone(p, newMigrationStartVersion)
           ELSE /\ LegacyFailed(p, DbErr)
                /\ UNCHANGED <<tableExists, legacyRows, appliedRows>>
    /\ UNCHANGED cvSeen
    /\ UNCHANGED <<cat, start, effects, lockHeld, calls, idx, stmts, sidx,
                   inTx, pending, migrationErr, startRows, upsBefore,
                   applied>>

\* The loop of Up moves to the next file
NextFile(p) == idx' = [idx EXCEPT ![p] = @ + 1]

\* Up: the head of the loop over migrationFiles: ParseFile and the choice
\* between direct execution and runTransaction
UpLoop(p) ==
    /\ pc[p] = "loop"
    /\ IF idx[p] > Len(migrationFiles)
       THEN /\ UpReturn(p, NilErr)
            /\ UNCHANGED <<idx, stmts, sidx, log>>
       ELSE IF ~AssetFound(Key(p))
       THEN /\ UpReturn(p, AssetErr)
            /\ Logged(p, Event("asset", Key(p), 0, FALSE))
            /\ UNCHANGED <<idx, stmts, sidx>>
       ELSE LET statements == ParseFile(Key(p))
                first == FirstStatement(statements)
            IN  /\ stmts' = [stmts EXCEPT ![p] = statements]
                /\ sidx' = [sidx EXCEPT ![p] = first]
                /\ UNCHANGED <<ret, upDone, log>>
                /\ IF ~IsNoTransaction(statements)
                   THEN /\ pc' = [pc EXCEPT ![p] = "begin"]
                        /\ UNCHANGED idx
                   ELSE IF first > Len(statements)
                   THEN /\ NextFile(p)
                        /\ UNCHANGED pc
                   ELSE /\ pc' = [pc EXCEPT ![p] = "exec"]
                        /\ UNCHANGED idx
    /\ UNCHANGED cvSeen
    /\ UNCHANGED <<cat, start, tableExists, legacyRows, appliedRows, effects,
                   lockHeld, faults, calls, inTx, pending, migrationErr,
                   legacyRet, startRows, upsBefore, applied>>

\* runTransaction: self.db.Begin()
TxBegin(p) ==
    /\ pc[p] = "begin"
    /\ \E ok \in Outcomes :
        /\ Fault(ok)
        /\ Logged(p, Event("begin", Key(p), 0, ok))
        /\ inTx' = [inTx EXCEPT ![p] = ok]
        /\ IF ok
           THEN /\ pc' = [pc EXCEPT ![p] = "exec"]
                /\ UNCHANGED <<ret, upDone>>
           ELSE UpReturn(p, DbErr)
    /\ pending' = [pending EXCEPT ![p] = {}]
    /\ migrationErr' = [migrationErr EXCEPT ![p] = NilErr]
    /\ UNCHANGED cvSeen
    /\ UNCHANGED <<cat, start, tableExists, legacyRows, appliedRows, effects,
                   lockHeld, calls, idx, stmts, sidx, legacyRet, startRows,
                   upsBefore, applied>>

\* The effect of a statement reaches the database
Apply(eff, key, is) ==
    [s \in DOMAIN eff |->
        IF s[1] = key /\ s[2] \in is THEN eff[s] + 1 ELSE eff[s]]

\* (a rollback that keeps what the transaction did)
RollbackEffectsKept(eff, key, is) == Apply(eff, key, is)

\* What a rolled-back transaction leaves in the database: nothing of it
RollbackEffects(eff, key, is) == eff

\* history: the statements whose effects this step put into the database
AppliedBy(p) ==
    applied' = [applied EXCEPT ![p] =
                  @ \cup {s \in DOMAIN effects : effects'[s] > effects[s]}]

\* One statement of the current unit: tx.Exec inside runTransaction,
\* self.db.Exec on the connection after the sentinel
ExecStatement(p) ==
    /\ pc[p] = "exec"
    /\ sidx[p] <= Len(stmts[p])
    /\ \E io \in Outcomes :
        LET ok == io /\ StatementOk(stmts[p][sidx[p]])
            last == sidx[p] = Len(stmts[p])
        IN  /\ Fault(io)
            /\ Logged(p, Event("exec", Key(p), sidx[p], ok))
            /\ IF inTx[p]
               THEN /\ UNCHANGED <<effects, idx, ret, upDone>>
                    /\ IF ok
                       THEN /\ pending' =
                                 [pending EXCEPT ![p] = @ \cup {sidx[p]}]
                            /\ sidx' = [sidx EXCEPT ![p] = @ + 1]
                            /\ pc' = [pc EXCEPT ![p] =
                                        IF last THEN "commit" ELSE "exec"]
                            /\ UNCHANGED migrationErr
                       ELSE /\ migrationErr' =
                                 [migrationErr EXCEPT ![p] = DbErr]
                            /\ pc' = [pc EXCEPT ![p] = "rollback"]
                            /\ UNCHANGED <<pending, sidx>>
               ELSE /\ UNCHANGED <<pending, migrationErr>>
                    /\ IF ok
                       THEN /\ effects' = Apply(effects, Key(p), {sidx[p]})
                            /\ sidx' = [sidx EXCEPT ![p] = @ + 1]
                            /\ IF last
                               THEN /\ NextFile(p)
                                    /\ pc' = [pc EXCEPT ![p] = "loop"]
                               ELSE UNCHANGED <<idx, pc>>
                            /\ UNCHANGED <<ret, upDone>>
                       ELSE /\ UpReturn(p, DbErr)
                            /\ UNCHANGED <<effects, sidx, idx>>
    /\ AppliedBy(p)
    /\ UNCHANGED cvSeen
    /\ UNCHANGED <<cat, start, tableExists, legacyRows, appliedRows, lockHeld,
                   calls, stmts, inTx, legacyRet, startRows, upsBefore>>

\* (a transaction that stays open)
TxLeftOpen(tx, p) == tx

\* tx.Rollback() or tx.Commit() was called: the transaction is over
TxDone(tx, p) == [tx EXCEPT ![p] = FALSE]

\* runTransaction's deferred function after a failed statement:
\* tx.Rollback(), whose own error is dropped; Up returns the statement's error
TxRollback(p) ==
    /\ pc[p] = "rollback"
    /\ \E ok \in Outcomes :
        /\ Fault(ok)
        /\ Logged(p, Event("rollback", Key(p), 0, ok))
    /\ effects' = RollbackEffects(effects, Key(p), pending[p])
    /\ AppliedBy(p)
    /\ inTx' = TxDone(inTx, p)
    /\ pending' = [pending EXCEPT ![p] = {}]
    /\ UpReturn(p, migrationErr[p])
    /\ UNCHANGED cvSeen
    /\ UNCHANGED <<cat, start, tableExists, legacyRows, appliedRows, lockHeld,
                   calls, idx, stmts, sidx, migrationErr, legacyRet,
                   startRows, upsBefore>>

\* What runTransaction returns after its deferred commit ended with
\* commitErr: the deferred function's return value is discarded
CommitResult(commitErr) == NilErr

\* runTransaction's deferred function after the last statement: tx.Commit()
TxCommit(p) ==
    /\ pc[p] = "commit"
    /\ \E ok \in Outcomes :
        /\ Fault(ok)
        /\ Logged(p, Event("commit", Key(p), 0, ok))
        /\ effects' = IF ok THEN Apply(effects, Key(p), pending[p]) ELSE effects
        /\ IF CommitResult(IF ok THEN NilErr ELSE DbErr) = NilErr
           THEN /\ NextFile(p)
                /\ pc' = [pc EXCEPT ![p] = "loop"]
                /\ UNCHANGED <<ret, upDone>>
           ELSE /\ UpReturn(p, DbErr)
                /\ UNCHANGED idx
    /\ inTx' = TxDone(inTx, p)
    /\ pending' = [pending EXCEPT ![p] = {}]
    /\ AppliedBy(p)
    /\ UNCHANGED cvSeen
    /\ UNCHANGED <<cat, start, tableExists, legacyRows, appliedRows, lockHeld,
                   calls, stmts, sidx, migrationErr, legacyRet, startRows,
                   upsBefore>>

\* --------------------------------------------------------- CurrentVersion
\* (a version that goes down as calls are made)
CurrentVersionCountdown == MaxCalls - calls

\* CurrentVersion: return 0, nil
CurrentVersionValue == 0

\* CurrentVersion, first step: checkOrCreateSchemaMigrationsTable
CvEnsureTable(p) ==
    /\ Enter(p)
    /\ \E ok \in Outcomes :
        /\ Fault(ok)
        /\ CreateTable(ok)
        /\ log' = [log EXCEPT ![p] = <<Event("ensure", 0, 0, ok)>>]
        /\ IF ok
           THEN /\ pc' = [pc EXCEPT ![p] = "cvSelect"]
                /\ UNCHANGED ret
           ELSE /\ pc' = [pc EXCEPT ![p] = "idle"]
                /\ ret' = [ret EXCEPT ![p] =
                             [op |-> "CurrentVersion", val |-> 0,
                              err |-> DbErr]]
    /\ UNCHANGED cvSeen
    /\ UNCHANGED <<cat, start, legacyRows, appliedRows, effects, lockHeld,
                   idx, inTx, pending, upDone>>

\* CurrentVersion, second step: the SELECT whose result and error are
\* dropped, then return 0, nil
CvSelect(p) ==
    /\ pc[p] = "cvSelect"
    /\ \E ok \in Outcomes :
        /\ Fault(ok)
        /\ Logged(p, Event("select", 0, 0, ok))
    /\ pc' = [pc EXCEPT ![p] = "idle"]
    /\ ret' = [ret EXCEPT ![p] =
                 [op |-> "CurrentVersion", val |-> CurrentVersionValue,
                  err |-> NilErr]]
    /\ cvSeen' = Append(cvSeen, CurrentVersionValue)
    /\ UNCHANGED <<cat, start, tableExists, legacyRows, appliedRows, effects,
                   lockHeld, calls, idx, stmts, sidx, inTx, pending,
                   migrationErr, legacyRet, upDone, startRows, upsBefore,
                   applied>>

\* --------------------------------------------------- Down, SupportedVersion
\* Down(version): checkOrCreateSchemaMigrationsTable, then return its error
\* or nil
Down(p) ==
    /\ Enter(p)
    /\ \E version \in DownTargets, ok \in Outcomes :
        /\ Fault(ok)
        /\ CreateTable(ok)
        /\ log' = [log EXCEPT ![p] = <<Event("ensure", 0, 0, ok)>>]
        /\ ret' = [ret EXCEPT ![p] =
                     [op |-> "Down", val |-> 0,
                      err |-> IF ok THEN NilErr ELSE DbErr]]
    /\ UNCHANGED cvSeen
    /\ UNCHANGED <<cat, start, legacyRows, appliedRows, effects, lockHeld, pc,
                   idx, inTx, pending, upDone>>

\* SupportedVersion: return 0, nil
SupportedVersion(p) ==
    /\ Enter(p)
    /\ ret' = [ret EXCEPT ![p] =
                 [op |-> "SupportedVersion", val |-> 0, err |-> NilErr]]
    /\ log' = [log EXCEPT ![p] = <<>>]
    /\ UNCHANGED cvSeen
    /\ UNCHANGED <<cat, start, tableExists, legacyRows, appliedRows, effects,
                   lockHeld, faults, pc, idx, inTx, pending, upDone>>

\* -------------------------------------------------------------------- spec
Next ==
    \E p \in Procs :
        \/ UpEnsureTable(p)
        \/ ExistLegacyVersion(p)
        \/ ReadLegacyVersion(p)
        \/ DropLegacyTable(p)
        \/ UpLoop(p)
        \/ TxBegin(p)
        \/ ExecStatement(p)
        \/ TxRollback(p)
        \/ TxCommit(p)
        \/ CvEnsureTable(p)
        \/ CvSelect(p)
        \/ Down(p)
        \/ SupportedVersion(p)

Spec == Init /\ [][Next]_vars

\* ---------------------------------------------------------------- properties
Keys == DOMAIN cat.assets

MaxOf(S) == CHOOSE x \in S : \A y \in S : y <= x

\* The process has returned from a call of op and made no call since
Returned(p, op) == pc[p] = "idle" /\ ret[p].op = op

\* The process is inside Up
InUp(p) ==
    pc[p] \in {"existLegacy", "readLegacy", "dropLegacy", "loop", "begin",
               "exec", "commit", "rollback"}

\* Positions in the call's history where a statement was handed to the database
Execs(p) == {n \in 1..Len(log[p]) : log[p][n].kind = "exec"}

\* Every statement of unit k has its effect in the database
UnitApplied(k) == \A s \in DOMAIN effects : s[1] = k => effects[s] > 0

\* The floor below which a reconciled legacy database needs no unit
Floor ==
    IF start = {oldMigrationLastVersion} THEN newMigrationStartVersion ELSE 0

\* The catalogue list is in ascending key order
Ascending(f) == \A i, j \in 1..Len(f) : i < j => f[i] < f[j]

\* C1: two Up() calls on a fresh database, one per process, each started
\* before the other returned, have both returned (no I/O fault): every
\* statement of every unit has been executed exactly once in total, and a
\* CurrentVersion() made after both returned gives the highest key of the
\* catalogue.
C1_ConcurrentUpAppliesOnce ==
    (/\ start = {}
     /\ faults = 0
     /\ \A p \in Procs : pc[p] = "idle" /\ upDone[p] = 1)
    => /\ (calls = 2 /\ \A p \in Procs : upsBefore[p] = 0)
          => \A s \in DOMAIN effects : effects[s] = 1
       /\ \A p \in Procs :
            (Returned(p, "CurrentVersion") /\ upsBefore[p] = 2
               /\ ret[p].err = NilErr)
            => ret[p].val = MaxOf(Keys)

\* C2: an Up() that starts after a successful Up() (same catalogue, no I/O
\* fault) executes no unit statement, inserts no AppliedVersion row, returns
\* no error and leaves the Version Store as it found it.
C2_SecondUpIsNoOp ==
    \A p \in Procs :
        (Returned(p, "Up") /\ upsBefore[p] >= 1 /\ faults = 0)
        => /\ Execs(p) = {}
           /\ applied[p] = {}
           /\ ret[p].err = NilErr
           /\ appliedRows = startRows[p]

\* C3: whenever no process is inside Up (and no I/O fault has struck), the
\* AppliedVersion rows are exactly the keys (above the legacy floor) of the
\* units whose statements have been applied, they form a gap-free prefix of
\* the catalogue in key order, and no statement has been applied twice.
C3_RowsAreAppliedPrefix ==
    (faults = 0 /\ \A p \in Procs : ~InUp(p))
    => /\ appliedRows = {k \in Keys : k > Floor /\ UnitApplied(k)}
       /\ \A k \in appliedRows, j \in Keys :
            (Floor < j /\ j < k) => j \in appliedRows
       /\ \A s \in DOMAIN effects : effects[s] <= 1

\* The call of p ran unit k in a transaction and statement i of it failed
FailedInTx(p, k, i) ==
    \E n \in 1..Len(log[p]) :
        /\ log[p][n] = Event("exec", k, i, FALSE)
        /\ \E m \in 1..(n - 1) : log[p][m] = Event("begin", k, 0, TRUE)

\* C4: once Up() has returned after a statement of a unit run in a
\* transaction failed, the call has left no effect of any statement of that
\* unit in the database (the earlier ones are rolled back, the later ones
\* were never executed), the transaction is closed, and the Version Store
\* holds no row for the unit; when the statement is one the database rejects
\* every time, the database holds no effect of the unit at all.
C4_TxUnitAtomic ==
    \A p \in Procs :
        Returned(p, "Up") =>
        \A k \in Keys :
        \A i \in 1..Len(ParseFile(k)) :
        FailedInTx(p, k, i)
        => /\ \A s \in applied[p] : s[1] # k
           /\ ~StatementOk(ParseFile(k)[i])
              => \A s \in DOMAIN effects : s[1] = k => effects[s] = 0
           /\ \A n \in Execs(p) : log[p][n].key = k => log[p][n].i <= i
           /\ ~inTx[p] /\ pending[p] = {}
           /\ ret[p].err # NilErr
           /\ k \notin appliedRows

\* Witness of C4: the second of three statements of a transactional unit
\* failed after the first had been executed, and Up() has returned.
C4_Witness ==
    \E p \in Procs, k \in Keys :
        /\ Returned(p, "Up")
        /\ FailedInTx(p, k, 2)
        /\ Len(stmts[p]) = 3
        /\ \E n \in Execs(p) : log[p][n] = Event("exec", k, 1, TRUE)

\* Position n of the call's history is the failure of a unit
UnitFailed(p, n) ==
    log[p][n].kind \in {"asset", "begin", "exec", "commit"} /\ ~log[p][n].ok

\* C5: if a unit fails during Up(), Up() returns a non-nil error, the call
\* hands no statement of a later unit to the database, and what the call
\* committed for earlier units stays in the database.
C5_StopOnFirstFailure ==
    \A p \in Procs :
        Returned(p, "Up") =>
            \A n \in 1..Len(log[p]) :
                UnitFailed(p, n)
                => /\ ret[p].err # NilErr
                   /\ \A m \in (n + 1)..Len(log[p]) :
                        log[p][m].kind \notin {"begin", "exec", "commit"}
                   /\ \A s \in applied[p] : effects[s] >= 1

\* C6: CurrentVersion() returns the maximum AppliedVersion row (0 when there
\* is none); called after a successful Up() on a fresh database it returns the
\* highest key of the catalogue, and called by a process whose Up() just
\* failed at a unit it returns the key of the unit before it.  (Two calls in
\* all, no I/O fault, catalogue in key order.)
C6_CurrentVersionIsMax ==
    \A p \in Procs :
        (/\ Returned(p, "CurrentVersion") /\ ret[p].err = NilErr
         /\ start = {} /\ faults = 0 /\ calls = 2
         /\ Ascending(migrationFiles)
         /\ \A q \in Procs : ~InUp(q))
        => /\ ret[p].val = IF appliedRows = {} THEN 0 ELSE MaxOf(appliedRows)
           /\ upsBefore[p] = 1 => ret[p].val = MaxOf(Keys)
           /\ (upDone[p] = 0 /\ idx[p] > 1)
              => ret[p].val = migrationFiles[idx[p] - 1]

\* C7: an Up() that found the legacy table holding the cutover version (189)
\* and reconciled it has, when it returns, left no legacy table and handed
\* to the database only statements of units with key above the new-era floor.
C7_LegacyMatchSkipsOldUnits ==
    \A p \in Procs :
        (/\ Returned(p, "Up")
         /\ start = {oldMigrationLastVersion}
         /\ faults = 0
         /\ legacyRet[p] = newMigrationStartVersion)
        => /\ legacyRows = {}
           /\ \A n \in Execs(p) : log[p][n].key > newMigrationStartVersion

\* C8: an Up() on a database whose legacy table holds a version other than
\* 189 fails, with the error that carries the expected and the found version
\* unless an I/O fault struck, and leaves the legacy table and its row in
\* place and hands no unit statement to the database.
C8_LegacyMismatchFails ==
    \A p \in Procs :
        (Returned(p, "Up") /\ start = {oldMigrationLastVersion - 1})
        => /\ ret[p].err # NilErr
           /\ faults = 0 => ret[p].err = LegacyErr(oldMigrationLastVersion - 1)
           /\ tableExists /\ legacyRows = start
           /\ Execs(p) = {} /\ applied[p] = {}

\* C9: within one Up() call the units reach the database in ascending key
\* order: a unit with a smaller key never begins after a unit with a greater
\* key has begun, whatever the order of the catalogue list.
C9_UnitsInKeyOrder ==
    \A p \in Procs :
        \A m, n \in 1..Len(log[p]) :
            (/\ m < n
             /\ faults = 0
             /\ log[p][m].kind \in {"begin", "exec"}
             /\ log[p][n].kind \in {"begin", "exec"})
            => log[p][m].key <= log[p][n].key

\* C10: a process inside Up() (the table ensured, about to check the legacy
\* table or run a unit) holds the schema-migration lock, and a process that
\* is in no call holds no lock.
C10_UpHoldsLock ==
    \A p \in Procs :
        /\ InUp(p) => p \in lockHeld
        /\ pc[p] = "idle" => p \notin lockHeld

\* The database is as it was before the first call
Untouched ==
    /\ tableExists = (start # {})
    /\ legacyRows = start
    /\ appliedRows = {}
    /\ \A s \in DOMAIN effects : effects[s] = 0

\* C11: SupportedVersion() returns, with a nil error, the highest key of the
\* catalogue, and when it is the only call made the database is as it was.
C11_SupportedVersionIsMaxKey ==
    \A p \in Procs :
        Returned(p, "SupportedVersion")
        => /\ ret[p].err = NilErr
           /\ ret[p].val = MaxOf(Keys)
           /\ calls = 1 => Untouched

\* C12: Down(version) that returns nil after a successful Up() (two calls in
\* all, no I/O fault) has reversed every unit with a key above version: no
\* effect of such a unit is left in the database and no AppliedVersion row
\* above version remains.  Down does not read its argument, so the state it
\* leaves is the state after Down(version) for every version of DownTargets.
C12_DownReversesToTarget ==
    \A p \in Procs, version \in DownTargets :
        (/\ Returned(p, "Down") /\ ret[p].err = NilErr
         /\ faults = 0 /\ calls = 2 /\ upsBefore[p] = 1)
        => \A k \in Keys :
             k > version
             => /\ k \notin appliedRows
                /\ \A s \in DOMAIN effects : s[1] = k => effects[s] = 0

\* C13: a process inside CurrentVersion() holds no lock; CurrentVersion()
\* returns a nil error unless an I/O fault struck its table creation, also on
\* a database that had no version table; and the values CurrentVersion()
\* calls return, in the order they return, never decrease, whatever Up()
\* calls are in progress.
C13_CurrentVersionLockFreeMonotone ==
    /\ \A p \in Procs :
         /\ pc[p] = "cvSelect" => p \notin lockHeld
         /\ Returned(p, "CurrentVersion")
            => /\ p \notin lockHeld
               /\ log[p][1].ok => ret[p].err = NilErr
               /\ faults = 0 => ret[p].err = NilErr
    /\ \A i, j \in 1..Len(cvSeen) : i < j => cvSeen[i] <= cvSeen[j]

\* Witness of C13: on a database that started without a version table, two
\* CurrentVersion() calls have returned and an Up() is in progress.
C13_Witness ==
    /\ start = {}
    /\ Len(cvSeen) >= 2
    /\ \E p, q \in Procs :
         /\ InUp(p)
         /\ Returned(q, "CurrentVersion")
         /\ ret[q].err = NilErr

\* The unit key an error value carries (0: it carries none)
ErrKey(e) == IF "key" \in DOMAIN e THEN e.key ELSE 0

\* C14: when Up() has returned after the database rejected a statement of
\* a unit (no I/O fault), the error it returned is the database's error (the
\* cause) and carries the key of that unit.
C14_ErrorNamesUnit ==
    \A p \in Procs :
        (Returned(p, "Up") /\ faults = 0) =>
            \A n \in 1..Len(log[p]) :
                (log[p][n].kind = "exec" /\ ~log[p][n].ok)
                => /\ ret[p].err # NilErr
                   /\ ret[p].err.kind = DbErr.kind
                   /\ ErrKey(ret[p].err) = log[p][n].key

\* The body of unit k starts with the sentinel marker "NO_TRANSACTION;"
BeginsWithSentinel(k) ==
    LET body == cat.assets[k]
    IN  /\ Len(body) >= Len(noTransaction)
        /\ SubSeq(body, 1, Len(noTransaction)) = noTransaction

\* ... and statements follow the marker
SentinelUnit(k) ==
    BeginsWithSentinel(k) /\ Len(cat.assets[k]) > Len(noTransaction)

\* C15: Up() opens no transaction for a unit whose body is the sentinel
\* marker followed by statements (seen without any I/O fault) and never
\* hands the marker itself to the database; when the call has returned after
\* statement i of such a unit failed, the effects of the unit's statements
\* before i are in the database; and every statement of a unit without the
\* marker is executed inside a transaction begun for that unit.
C15_SentinelRunsOutsideTransaction ==
    \A p \in Procs :
        \A n \in 1..Len(log[p]) :
            LET e == log[p][n]
            IN  /\ (e.kind = "begin" /\ faults = 0) => ~SentinelUnit(e.key)
                /\ (e.kind = "exec" /\ SentinelUnit(e.key))
                   => /\ ParseFile(e.key)[e.i] # <<SentinelWord>>
                      /\ (Returned(p, "Up") /\ ~e.ok)
                         => \A j \in 2..(e.i - 1) :
                              /\ <<e.key, j>> \in applied[p]
                              /\ effects[<<e.key, j>>] >= 1
                /\ (e.kind = "exec" /\ ~BeginsWithSentinel(e.key))
                   => \E m \in 1..(n - 1) :
                        log[p][m] = Event("begin", e.key, 0, TRUE)

\* The body of unit k is empty, or the sentinel marker and nothing else
TrivialUnit(k) == cat.assets[k] = <<>> \/ cat.assets[k] = noTransaction

\* C16: when Up() has returned (no I/O fault), no step it made for a unit
\* whose body is empty or the sentinel marker alone has failed, the only
\* statement it handed to the database for such a unit is the empty one, and
\* over a catalogue of such units alone it went through every unit and
\* returned nil.
C16_TrivialUnitIsLegal ==
    \A p \in Procs :
        (Returned(p, "Up") /\ faults = 0)
        => /\ \A n \in 1..Len(log[p]) :
                LET e == log[p][n]
                IN  (e.key \in Keys /\ TrivialUnit(e.key))
                    => /\ e.ok
                       /\ e.kind = "exec" => ParseFile(e.key)[e.i] = <<>>
           /\ (\A k \in Keys : TrivialUnit(k))
              => /\ ret[p].err = NilErr
                 /\ idx[p] > Len(migrationFiles)

\* C17: when Up() has returned and the Begin or the Commit of a unit's
\* transaction had failed during the call, Up() returned a non-nil error and
\* the call began no transaction and executed no statement after that
\* failure; so an Up() that returned nil saw every Commit succeed.
C17_NoSwallowedTxFailure ==
    \A p \in Procs :
        Returned(p, "Up") =>
            /\ \A n \in 1..Len(log[p]) :
                 (log[p][n].kind \in {"begin", "commit"} /\ ~log[p][n].ok)
                 => /\ ret[p].err # NilErr
                    /\ \A m \in (n + 1)..Len(log[p]) :
                         log[p][m].kind \notin {"begin", "exec"}
            /\ ret[p].err = NilErr
               => \A n \in 1..Len(log[p]) :
                    log[p][n].kind = "commit" => log[p][n].ok

\* Positions in the call's history of steps of the given kind and outcome
Steps(p, kind, ok) ==
    {n \in 1..Len(log[p]) : log[p][n].kind = kind /\ log[p][n].ok = ok}

\* The call's history holds a step of the given kind, with the given outcome
Did(p, kind) == \E n \in 1..Len(log[p]) : log[p][n].kind = kind

DidWith(p, kind, ok) ==
    \E n \in 1..Len(log[p]) : log[p][n].kind = kind /\ log[p][n].ok = ok

\* The legacy check of the current call of p is over
BridgeOver(p) ==
    /\ pc[p] \notin {"existLegacy", "readLegacy", "dropLegacy"}
    /\ Did(p, "exists")

\* The table is dropped only in the step after a successful read of 189
DropFollowsCutoverRead ==
    \A p \in Procs :
        /\ pc[p] = "dropLegacy"
           => /\ log[p][Len(log[p])] = Event("read", 0, 0, TRUE)
              /\ start = {oldMigrationLastVersion}
        /\ \A n \in 1..Len(log[p]) :
             log[p][n].kind = "drop"
             => /\ n > 1
                /\ log[p][n - 1] = Event("read", 0, 0, TRUE)
                /\ start = {oldMigrationLastVersion}

\* A database that did not start with the legacy table at 189 keeps its
\* table, once created, and its row
TableLeftInPlace ==
    start # {oldMigrationLastVersion}
    => /\ legacyRows = start
       /\ start # {} => tableExists
       /\ (\E p \in Procs : DidWith(p, "ensure", TRUE)) => tableExists

\* The legacy check of p reported "no bridge needed": (-1, nil), no drop
NoBridgeNeeded(p) ==
    /\ legacyRet[p] = 0 - 1
    /\ ~Did(p, "drop")
    /\ pc[p] = "idle" => ret[p].err.kind \notin {"legacy"}
    /\ pc[p] # "idle" => InUp(p)

\* C18 (as claimed): the table is dropped only after a successful read of
\* 189 and is left in place otherwise, and a legacy check whose existence
\* query or version read failed reports "no bridge needed" with no error,
\* Up() going on to its loop.
C18_LegacyBridgeAsClaimed ==
    /\ DropFollowsCutoverRead
    /\ TableLeftInPlace
    /\ \A p \in Procs :
         (/\ BridgeOver(p)
          /\ DidWith(p, "exists", FALSE) \/ DidWith(p, "read", FALSE))
         => NoBridgeNeeded(p)

\* C18 (amended): the table is dropped only after a successful read of 189
\* and is left in place otherwise; a legacy check whose version read failed
\* reports "no bridge needed" with no error, Up() going on to its loop; a
\* failed existence query is taken for "the table exists" and the legacy
\* check goes on to read the version.
C18_LegacyBridge ==
    /\ DropFollowsCutoverRead
    /\ TableLeftInPlace
    /\ \A p \in Procs :
         /\ (BridgeOver(p) /\ DidWith(p, "read", FALSE))
            => NoBridgeNeeded(p)
         /\ \A n \in 1..Len(log[p]) :
              (log[p][n].kind = "exists" /\ ~log[p][n].ok)
              => IF n = Len(log[p])
                 THEN pc[p] = "readLegacy"
                 ELSE log[p][n + 1].kind = "read"

\* Witness of C18: on a database that started with the legacy table at 189,
\* one process has dropped the table after reading 189 and another, whose
\* version read failed, has gone on without a bridge.
C18_Witness ==
    \E p, q \in Procs :
        /\ start = {oldMigrationLastVersion}
        /\ DidWith(p, "drop", TRUE)
        /\ DidWith(q, "read", FALSE)
        /\ BridgeOver(q)
        /\ legacyRet[q] = 0 - 1

\* C19: on a database that started without the table, a process about to run
\* the legacy check finds the table its Up() created; the check, passing or
\* failing its existence query, goes on to read the version, finds no row
\* and reports "no bridge needed"; no Up() returns the unsupported-version
\* error, no process drops the table, and the table, once created, stays.
C19_FreshDatabaseNeedsNoBridge ==
    start = {}
    => \A p \in Procs :
         /\ pc[p] \in {"existLegacy", "readLegacy"} => tableExists
         /\ \A n \in 1..Len(log[p]) :
              log[p][n].kind = "exists"
              => IF n = Len(log[p])
                 THEN pc[p] = "readLegacy"
                 ELSE log[p][n + 1].kind = "read"
         /\ BridgeOver(p) => NoBridgeNeeded(p)
         /\ ret[p].err.kind # LegacyErr(0).kind
         /\ pc[p] # "dropLegacy"
         /\ DidWith(p, "ensure", TRUE) => tableExists

\* Witness of C19: an Up() on a database that started without the table has
\* created it, read no version from it, and returned nil.
C19_Witness ==
    /\ start = {}
    /\ tableExists
    /\ \E p \in Procs :
         /\ Returned(p, "Up")
         /\ ret[p].err = NilErr
         /\ DidWith(p, "exists", TRUE)
         /\ DidWith(p, "read", TRUE)

\* Positions in the call's history where a transaction was begun, and where
\* one was ended (Rollback or Commit called, whatever it returned)
Begun(p) == Steps(p, "begin", TRUE)

Ended(p) ==
    {n \in 1..Len(log[p]) : log[p][n].kind \in {"rollback", "commit"}}

\* C20: within a call, every transaction begun is ended exactly once before
\* the next is begun, by Rollback right after a failed statement and by
\* Commit right after the last statement succeeded; the number begun exceeds
\* the number ended by one exactly while the process is inside
\* runTransaction with its transaction open, so at most one is open at a
\* time, and none is open in a process that is at the head of Up's loop or
\* has returned.
C20_TransactionsClosed ==
    \A p \in Procs :
        LET begun == Begun(p)
            ended == Ended(p)
        IN  /\ Cardinality(begun) - Cardinality(ended)
                 = IF inTx[p] THEN 1 ELSE 0
            /\ inTx[p] => pc[p] \in {"exec", "commit", "rollback"}
            /\ pc[p] \in {"commit", "rollback"} => inTx[p]
            /\ pc[p] \in {"idle", "loop", "begin"} => pending[p] = {}
            /\ \A n, m \in begun :
                 n < m => Cardinality({e \in ended : n < e /\ e < m}) = 1
            /\ \A e \in ended :
                 /\ e > 1
                 /\ log[p][e - 1].kind = "exec"
                 /\ log[p][e - 1].ok = (log[p][e].kind = "commit")
                 /\ \E n \in begun :
                      n < e /\ log[p][n].key = log[p][e].key

\* Witness of C20: an Up() has returned after committing the transaction of
\* one unit and rolling back the transaction of the next.
C20_Witness ==
    \E p \in Procs :
        /\ Returned(p, "Up")
        /\ \E c, r \in Ended(p) :
             /\ c < r
             /\ log[p][c].kind = "commit"
             /\ log[p][r].kind = "rollback"

====
